---- MODULE Spec2Model ----
(***************************************************************************)
(* Model of the OpenTracing shim's SpanShim                                *)
(* (opentracing-shim/src/span_shim.cc) together with the SpanContextShim   *)
(* it owns (opentracing-shim/include/.../span_context_shim.h).             *)
(*                                                                         *)
(* A SpanShim forwards every OpenTracing call to an OpenTelemetry span     *)
(* (span_) and keeps the current SpanContextShim (context_) behind         *)
(* context_lock_.  The OpenTelemetry span, the Baggage value, the bodies   *)
(* of SpanContextShim's members and the shimutils conversions are not part *)
(* of the two translation units; they are modelled from the design         *)
(* document and are marked as such below.                                  *)
(***************************************************************************)
EXTENDS Integers, Sequences, FiniteSets, TLC

(***************************************************************************)
(* Bounds of the model.                                                    *)
(***************************************************************************)
\* Number of threads that share the one SpanShim.
NThreads == 2
\* Number of API calls made on the SpanShim in one run.
MaxCalls == 3
\* Largest time instant; instants range over SystemTimeMin .. MaxTime.
MaxTime == 1

Threads == 1 .. NThreads

(***************************************************************************)
(* Strings.                                                                *)
(*                                                                         *)
(* A string_view is a pointer and a length.  The shim hands several views  *)
(* on as `view.data()`, a bare character pointer, and the receiver (the    *)
(* nostd::string_view built from a C string) takes everything up to the    *)
(* first NUL from there on.  A view is therefore modelled with the memory it *)
(* points into: buf is the character array from data() up to and including *)
(* the NUL that ends the underlying std::string or literal, len is the     *)
(* view's size().  Characters are one-letter strings; NUL is the           *)
(* terminator.                                                             *)
(***************************************************************************)
NUL == "NUL"

\* The view of the first n characters of the NUL-terminated array holding s.
View(s, n) == [buf |-> s \o <<NUL>>, len |-> n]

\* The view of a whole std::string or string literal s.
Whole(s) == View(s, Len(s))

\* What a size-aware consumer sees (operator==, std::string(data, size)).
Content(v) == SubSeq(v.buf, 1, v.len)

\* strlen-style read of a character array: everything before the first NUL.
RECURSIVE CStr(_)
CStr(buf) ==
  IF buf = << >> \/ Head(buf) = NUL THEN << >>
  ELSE <<Head(buf)>> \o CStr(Tail(buf))

\* What the receiver of `v.data()` sees.
Data(v) == CStr(v.buf)

\* opentracing::ext::error
ErrorTag == <<"e", "r", "r", "o", "r">>

(***************************************************************************)
(* Inputs of the baggage calls: the string_views a caller passes.  Two of  *)
(* the keys are whole strings; the third is the one-character prefix of a  *)
(* longer string (a view that is not NUL-terminated at its size).          *)
(***************************************************************************)
BaggageKeys ==
  { Whole(<<"k">>), Whole(<<"k", "x">>), View(<<"k", "x">>, 1) }

BaggageValues == { Whole(<<"v">>), View(<<"v", "w">>, 1) }

(***************************************************************************)
(* opentelemetry::baggage::Baggage: an immutable key/value set.  A value   *)
(* is a function from the keys present to their values.                    *)
(***************************************************************************)
EmptyBaggage == << >>

\* A key/value map with one entry added or overwritten.
Put(m, key, value) ==
  [x \in (DOMAIN m) \cup {key} |-> IF x = key THEN value ELSE m[x]]

\* Baggage::Set: a new value, equal to b plus / overwriting the one entry.
BaggageSet(b, key, value) == Put(b, key, value)

\* Baggage::GetValue(key, out value): found or not, and the value when found.
BaggageGetValue(b, key) ==
  IF key \in DOMAIN b THEN [found |-> TRUE, value |-> b[key]]
  ELSE [found |-> FALSE, value |-> << >>]

(***************************************************************************)
(* SpanContextShim: a span-context snapshot held by value and a shared     *)
(* pointer to a Baggage.  Baggage objects live in `heap`, a sequence that  *)
(* grows by allocation; a BaggagePtr is an index into it.  Pointer 0 is    *)
(* what a read of a SpanContextShim that another thread is assigning to    *)
(* may yield (a data race): a shim that belongs to no snapshot.            *)
(***************************************************************************)
SpanContextShim(sc, ptr) == [context |-> sc, baggage |-> ptr]

TornShim == SpanContextShim("torn", 0)

\* What a lookup through a torn shim returns: no string of any snapshot.
Garbage == <<"garbage">>

\* SpanContextShim::newWithKeyValue: allocates the derived Baggage and wraps
\* it with the same span context.  Yields the new heap and the new shim.
NewWithKeyValue(h, shim, key, value) ==
  IF shim.baggage = 0 THEN [heap |-> h, shim |-> TornShim]
  ELSE [heap |-> Append(h, BaggageSet(h[shim.baggage], key, value)),
        shim |-> SpanContextShim(shim.context, Len(h) + 1)]

\* SpanContextShim::BaggageItem(key, out value).
ContextBaggageItem(h, shim, key) ==
  IF shim.baggage = 0 THEN [found |-> TRUE, value |-> Garbage]
  ELSE BaggageGetValue(h[shim.baggage], key)

\* SpanContextShim::Clone: the same span context and the same Baggage object.
Clone(shim) == SpanContextShim(shim.context, shim.baggage)

(***************************************************************************)
(* opentracing::Value and the shimutils conversions.  A Value is a closed  *)
(* variant; the cases that matter to the shim are string, bool, integer    *)
(* and null (standing for every case with no typed counterpart).  The text *)
(* of a string Value and the key of a log field reach the span by content, *)
(* so they are modelled by their content, as TLA+ strings.                 *)
(***************************************************************************)
Str(s) == [type |-> "string", val |-> s]
Bool(b) == [type |-> "bool", val |-> b]
Int64(i) == [type |-> "int", val |-> i]
Null == [type |-> "null", val |-> "nullptr"]

\* Decimal text of the integers the inputs use.
IntText(i) == IF i = 0 THEN "0" ELSE IF i = 1 THEN "1" ELSE "int"

\* shimutils::stringFromValue
StringFromValue(v) ==
  CASE v.type = "string" -> v.val
    [] v.type = "bool" -> (IF v.val THEN "true" ELSE "false")
    [] v.type = "int" -> IntText(v.val)
    [] OTHER -> ""

\* shimutils::attributeFromValue: the typed common::AttributeValue.
AttributeFromValue(v) ==
  CASE v.type = "string" -> [type |-> "string_view", val |-> v.val]
    [] v.type = "bool" -> [type |-> "bool", val |-> v.val]
    [] v.type = "int" -> [type |-> "int64_t", val |-> v.val]
    [] OTHER -> [type |-> "string_view", val |-> ""]

(***************************************************************************)
(* Time.  opentracing::SystemTime and SteadyTime are instants; an instant  *)
(* is an integer in SystemTimeMin .. MaxTime, and the conversion to the    *)
(* OpenTelemetry timestamp types keeps the instant.                        *)
(***************************************************************************)
\* opentracing::SystemTime::min(), the least representable instant.
SystemTimeMin == -MaxTime - 1

\* SteadyTime{}, the value of FinishSpanOptions' field when none was given.
SteadyTimeDefault == 0

\* The time the span records: a given instant, or the SDK's own clock.
At(t) == [clock |-> "given", t |-> t]
Now == [clock |-> "now", t |-> 0]
NoTime == [clock |-> "none", t |-> 0]

(***************************************************************************)
(* The OpenTelemetry span behind span_.  A call on it is a record of the   *)
(* method and its arguments; SpanApply is the span's reaction.  An ended   *)
(* span ignores every call.                                                *)
(***************************************************************************)
Call(method, args) == [method |-> method, args |-> args]

NoCall == Call("none", << >>)

NewSpan ==
  [name |-> << >>, attributes |-> << >>, status |-> "Unset",
   events |-> << >>, ended |-> FALSE, end_time |-> NoTime]

\* Span::End(options): a default end_steady_time means "now".
SpanEndTime(options) ==
  IF options.end_steady_time = SteadyTimeDefault THEN Now
  ELSE At(options.end_steady_time)

SpanApply(s, c) ==
  IF s.ended THEN s
  ELSE CASE c.method = "UpdateName" -> [s EXCEPT !.name = c.args[1]]
         [] c.method = "SetAttribute" ->
              [s EXCEPT !.attributes = Put(@, c.args[1], c.args[2])]
         [] c.method = "SetStatus" -> [s EXCEPT !.status = c.args[1]]
         [] c.method = "AddEvent" ->
              [s EXCEPT !.events =
                 Append(@, [name |-> c.args[1], time |-> Now,
                            attributes |-> c.args[2]])]
         [] c.method = "AddEventAt" ->
              [s EXCEPT !.events =
                 Append(@, [name |-> c.args[1], time |-> At(c.args[2]),
                            attributes |-> c.args[3]])]
         [] c.method = "End" ->
              [s EXCEPT !.ended = TRUE, !.end_time = SpanEndTime(c.args[1])]
         [] OTHER -> s

(***************************************************************************)
(* SpanShim: what each member does with its arguments.  The operators      *)
(* below yield the call the member makes on span_.                         *)
(***************************************************************************)
\* Mutant of handleError: a two-way mapping, every value but "true" gives Ok.
handleErrorTwoWay(value) ==
  LET str_value == StringFromValue(value)
      code == IF str_value = "true" THEN "Error" ELSE "Ok"
  IN  Call("SetStatus", <<code>>)

\* SpanShim::handleError
handleError(value) ==
  LET str_value == StringFromValue(value)
      code == IF str_value = "true" THEN "Error"
              ELSE IF str_value = "false" THEN "Ok"
              ELSE "Unset"
  IN  Call("SetStatus", <<code>>)

\* SpanShim::SetTag
SetTagCall(key, value) ==
  IF Content(key) = ErrorTag THEN handleError(value)
  ELSE Call("SetAttribute", <<Data(key), AttributeFromValue(value)>>)

\* SpanShim::SetOperationName
SetOperationNameCall(name) == Call("UpdateName", <<Data(name)>>)

\* Mutant of FinishWithOptionsCall: the finish timestamp is dropped.
FinishWithOptionsCallNoTime(finish_span_options) ==
  Call("End", <<[end_steady_time |-> SteadyTimeDefault]>>)

\* Mutant of FinishWithOptionsCall: the span is not ended.
FinishWithOptionsCallNoEnd(finish_span_options) == NoCall

\* SpanShim::FinishWithOptions
FinishWithOptionsCall(finish_span_options) ==
  Call("End",
       <<[end_steady_time |-> finish_span_options.finish_steady_timestamp]>>)

\* opentelemetry::trace::SemanticConventions
kExceptionType == "exception.type"
kExceptionMessage == "exception.message"
kExceptionStacktrace == "exception.stacktrace"

\* An EventEntry: the pair (key, value) of one log field.
EventEntry(key, value) == [first |-> key, second |-> value]

\* std::find_if over the fields: the index of the first entry keyed
\* "event", or 0 for fields.end().
RECURSIVE FindEventFrom(_, _)
FindEventFrom(fields, i) ==
  IF i > Len(fields) THEN 0
  ELSE IF fields[i].first = "event" THEN i
  ELSE FindEventFrom(fields, i + 1)

\* Mutant of FindEvent: the last entry keyed "event" instead of the first.
FindEventLast(fields) ==
  IF \E i \in DOMAIN fields : fields[i].first = "event"
  THEN CHOOSE i \in DOMAIN fields :
         /\ fields[i].first = "event"
         /\ \A j \in (i + 1) .. Len(fields) : fields[j].first # "event"
  ELSE 0

FindEvent(fields) == FindEventFrom(fields, 1)

\* Mutant of logImplKey: "stack" is not renamed.
logImplKeyNoStack(is_error, key) ==
  IF is_error
  THEN IF key = "error.kind" THEN kExceptionType
       ELSE IF key = "message" THEN kExceptionMessage
       ELSE key
  ELSE key

\* The key under which logImpl files one field.
logImplKey(is_error, key) ==
  IF is_error
  THEN IF key = "error.kind" THEN kExceptionType
       ELSE IF key = "message" THEN kExceptionMessage
       ELSE IF key = "stack" THEN kExceptionStacktrace
       ELSE key
  ELSE key

\* SpanShim::logImpl
logImpl(timestamp, fields) ==
  LET event == FindEvent(fields)
      name0 == IF event # 0 THEN StringFromValue(fields[event].second)
               ELSE "log"
      is_error == (name0 = "error")
      name == IF is_error THEN "exception" ELSE name0
      attributes ==
        [i \in 1 .. Len(fields) |->
           EventEntry(logImplKey(is_error, fields[i].first),
                      AttributeFromValue(fields[i].second))]
  IN  IF timestamp # SystemTimeMin
      THEN Call("AddEventAt", <<name, timestamp, attributes>>)
      ELSE Call("AddEvent", <<name, attributes>>)

(***************************************************************************)
(* Inputs of the span calls.                                               *)
(***************************************************************************)
\* (key, value) pairs for SetTag: the error tag with every kind of value, a
\* view whose content is the error tag inside a longer string, and ordinary
\* keys, one of them a prefix view.
TagInputs ==
  ({Whole(ErrorTag)} \X
     {Str("true"), Str("false"), Str("maybe"), Bool(TRUE), Bool(FALSE), Null})
  \cup {<<View(ErrorTag \o <<"s">>, 5), Str("true")>>,
        <<Whole(<<"k">>), Str("x")>>,
        <<View(<<"k", "x">>, 1), Int64(1)>>}

OperationNames == { Whole(<<"o", "p">>) }

\* FinishSpanOptions: no finish time given (the default), or an instant.
FinishOptions ==
  { [finish_steady_timestamp |-> t] : t \in {SteadyTimeDefault, MaxTime} }

\* The explicit timestamps a caller passes to Log.
LogTimes == {SystemTimeMin, MaxTime}

FieldLists ==
  { <<EventEntry("event", Str("error")), EventEntry("error.kind", Str("Timeout")),
      EventEntry("message", Str("boom")), EventEntry("stack", Str("at foo"))>>,
    <<EventEntry("foo", Str("bar"))>>,
    <<EventEntry("error.kind", Str("Timeout")), EventEntry("message", Str("boom")),
      EventEntry("stack", Str("at foo"))>>,
    <<EventEntry("event", Bool(TRUE)), EventEntry("event", Str("error")),
      EventEntry("stack", Str("at foo"))>>,
    <<EventEntry("foo", Int64(1)), EventEntry("event", Str("error")),
      EventEntry("event", Str("other")), EventEntry("message", Null)>> }

(***************************************************************************)
(* State.                                                                  *)
(***************************************************************************)
VARIABLES
  span,           \* the OpenTelemetry span behind span_
  context_,       \* SpanShim::context_, the current SpanContextShim
  context_lock_,  \* SpanShim::context_lock_: 0 when free, else the holder
  heap,           \* the Baggage objects allocated so far
  pc,             \* per thread: where it is in a baggage call
  arg,            \* per thread: the arguments of its call in progress
  tmp,            \* per thread: the shim newWithKeyValue returned to it
  held,           \* SpanContextShims held outside the SpanShim (clones)
  done,           \* history: the SetBaggageItem calls that returned, in order
  finish_called,  \* history: FinishWithOptions has been called
  calls,          \* number of API calls started
  last            \* history: the last call that returned, with its outcome

vars ==
  <<span, context_, context_lock_, heap, pc, arg, tmp, held, done,
    finish_called, calls, last>>

spanVars == <<span, finish_called>>
baggageVars == <<context_, context_lock_, heap, pc, arg, tmp, held, done>>

NoArgs == [key |-> Whole(<< >>), value |-> Whole(<< >>)]
NoShim == SpanContextShim("none", 0)

\* The record kept of a call that returned.
Returned(api, args, out) == [api |-> api, args |-> args, out |-> out]

Init ==
  /\ span = NewSpan
  /\ heap = <<EmptyBaggage>>
  /\ context_ = SpanContextShim("sc", 1)
  /\ context_lock_ = 0
  /\ pc = [t \in Threads |-> "idle"]
  /\ arg = [t \in Threads |-> NoArgs]
  /\ tmp = [t \in Threads |-> NoShim]
  /\ held = {}
  /\ done = << >>
  /\ finish_called = FALSE
  /\ calls = 0
  /\ last = Returned("none", << >>, NoCall)

(***************************************************************************)
(* The span calls.  Each is one call on span_ and takes no lock.           *)
(***************************************************************************)
\* A member that forwards call c to span_.
Forward(api, args, c) ==
  /\ calls < MaxCalls
  /\ calls' = calls + 1
  /\ span' = SpanApply(span, c)
  /\ last' = Returned(api, args, c)
  /\ UNCHANGED baggageVars

SetOperationName(name) ==
  /\ Forward("SetOperationName", <<name>>, SetOperationNameCall(name))
  /\ UNCHANGED finish_called

SetTag(key, value) ==
  /\ Forward("SetTag", <<key, value>>, SetTagCall(key, value))
  /\ UNCHANGED finish_called

FinishWithOptions(finish_span_options) ==
  /\ Forward("FinishWithOptions", <<finish_span_options>>,
             FinishWithOptionsCall(finish_span_options))
  /\ finish_called' = TRUE

\* Log(fields): no timestamp; the sentinel SystemTime::min() stands for it.
Log(fields) ==
  /\ Forward("Log", <<fields>>, logImpl(SystemTimeMin, fields))
  /\ UNCHANGED finish_called

\* Log(timestamp, fields), both overloads.
LogAt(timestamp, fields) ==
  /\ Forward("LogAt", <<timestamp, fields>>, logImpl(timestamp, fields))
  /\ UNCHANGED finish_called

(***************************************************************************)
(* The baggage calls.  std::lock_guard takes context_lock_ on entry and    *)
(* releases it on return.  SetBaggageItem is three steps: take the lock,   *)
(* build the derived shim from context_, assign it to context_ and return. *)
(* Between the last two the assignment to context_ is in progress.         *)
(***************************************************************************)
\* What thread t gets when it reads context_: the shim, unless another
\* thread is assigning to it at that moment (possible only without the
\* lock), when the read may also yield the new shim or a torn one.
ReadContext(t) ==
  IF \E u \in Threads \ {t} : pc[u] = "set_assign"
  THEN {context_, TornShim} \cup
       {tmp[u] : u \in {w \in Threads \ {t} : pc[w] = "set_assign"}}
  ELSE {context_}

\* Mutant of LockGuard: the call does not wait for the lock.
LockGuardNoWait(t) == context_lock_' = t

\* lock_guard's constructor: blocks until the lock is free.
LockGuard(t) ==
  /\ context_lock_ = 0
  /\ context_lock_' = t

SetBaggageItemEnter(t, restricted_key, value) ==
  /\ pc[t] = "idle"
  /\ calls < MaxCalls
  /\ LockGuard(t)
  /\ calls' = calls + 1
  /\ pc' = [pc EXCEPT ![t] = "set_locked"]
  /\ arg' = [arg EXCEPT ![t] = [key |-> restricted_key, value |-> value]]
  /\ UNCHANGED <<span, finish_called, context_, heap, tmp, held, done, last>>

\* Mutant of SetBaggageItemDerive: the entry is written into the Baggage
\* that context_ points to, and context_ keeps pointing to it.
SetBaggageItemDeriveInPlace(t) ==
  /\ pc[t] = "set_locked"
  /\ heap' = [heap EXCEPT ![context_.baggage] =
                BaggageSet(@, Data(arg[t].key), Data(arg[t].value))]
  /\ tmp' = [tmp EXCEPT ![t] = context_]
  /\ pc' = [pc EXCEPT ![t] = "set_assign"]
  /\ UNCHANGED <<span, finish_called, context_, context_lock_, arg, held,
                 done, calls, last>>

SetBaggageItemDerive(t) ==
  /\ pc[t] = "set_locked"
  /\ \E shim \in ReadContext(t) :
       LET new == NewWithKeyValue(heap, shim, Data(arg[t].key),
                                  Data(arg[t].value))
       IN  /\ heap' = new.heap
           /\ tmp' = [tmp EXCEPT ![t] = new.shim]
  /\ pc' = [pc EXCEPT ![t] = "set_assign"]
  /\ UNCHANGED <<span, finish_called, context_, context_lock_, arg, held,
                 done, calls, last>>

SetBaggageItemAssign(t) ==
  /\ pc[t] = "set_assign"
  /\ context_' = tmp[t]
  /\ context_lock_' = 0
  /\ done' = Append(done, [thread |-> t, key |-> arg[t].key,
                           value |-> arg[t].value, shim |-> tmp[t]])
  /\ last' = Returned("SetBaggageItem", <<arg[t].key, arg[t].value>>, NoCall)
  /\ pc' = [pc EXCEPT ![t] = "idle"]
  /\ arg' = [arg EXCEPT ![t] = NoArgs]
  /\ tmp' = [tmp EXCEPT ![t] = NoShim]
  /\ UNCHANGED <<span, finish_called, heap, held, calls>>

BaggageItemEnter(t, restricted_key) ==
  /\ pc[t] = "idle"
  /\ calls < MaxCalls
  /\ LockGuard(t)
  /\ calls' = calls + 1
  /\ pc' = [pc EXCEPT ![t] = "get_locked"]
  /\ arg' = [arg EXCEPT ![t] = [key |-> restricted_key, value |-> Whole(<< >>)]]
  /\ UNCHANGED <<span, finish_called, context_, heap, tmp, held, done, last>>

\* return context_.BaggageItem(restricted_key.data(), value) ? value : "";
BaggageItemReturn(t) ==
  /\ pc[t] = "get_locked"
  /\ \E shim \in ReadContext(t) :
       LET got == ContextBaggageItem(heap, shim, Data(arg[t].key))
       IN  last' = Returned("BaggageItem", <<arg[t].key>>,
                            IF got.found THEN got.value ELSE << >>)
  /\ context_lock_' = 0
  /\ pc' = [pc EXCEPT ![t] = "idle"]
  /\ arg' = [arg EXCEPT ![t] = NoArgs]
  /\ UNCHANGED <<span, finish_called, context_, heap, tmp, held, done, calls>>

(***************************************************************************)
(* Holders of a SpanContextShim outside the SpanShim: a caller clones the  *)
(* span's context between baggage calls, and may derive from what it       *)
(* holds.                                                                  *)
(***************************************************************************)
CloneContext ==
  /\ calls < MaxCalls
  /\ context_lock_ = 0
  /\ calls' = calls + 1
  /\ held' = held \cup {Clone(context_)}
  /\ last' = Returned("Clone", << >>, NoCall)
  /\ UNCHANGED <<span, finish_called, context_, context_lock_, heap, pc, arg,
                 tmp, done>>

DeriveContext(shim, key, value) ==
  /\ calls < MaxCalls
  /\ shim \in held
  /\ calls' = calls + 1
  /\ LET new == NewWithKeyValue(heap, shim, key, value)
     IN  /\ heap' = new.heap
         /\ held' = held \cup {new.shim}
  /\ last' = Returned("newWithKeyValue", <<shim, key, value>>, NoCall)
  /\ UNCHANGED <<span, finish_called, context_, context_lock_, pc, arg, tmp,
                 done>>

(***************************************************************************)
(* Specifications.                                                         *)
(***************************************************************************)
NextSpan ==
  \/ \E name \in OperationNames : SetOperationName(name)
  \/ \E in \in TagInputs : SetTag(in[1], in[2])
  \/ \E options \in FinishOptions : FinishWithOptions(options)
  \/ \E fields \in FieldLists : Log(fields)
  \/ \E timestamp \in LogTimes, fields \in FieldLists : LogAt(timestamp, fields)

NextBaggage ==
  \/ \E t \in Threads, key \in BaggageKeys, value \in BaggageValues :
       SetBaggageItemEnter(t, key, value)
  \/ \E t \in Threads : SetBaggageItemDerive(t)
  \/ \E t \in Threads : SetBaggageItemAssign(t)
  \/ \E t \in Threads, key \in BaggageKeys : BaggageItemEnter(t, key)
  \/ \E t \in Threads : BaggageItemReturn(t)
  \/ CloneContext
  \/ \E shim \in held : DeriveContext(shim, <<"k">>, <<"w">>)

Next == NextSpan \/ NextBaggage

Spec == Init /\ [][Next]_vars

\* The span calls alone.
SpecSpan == Init /\ [][NextSpan]_vars

\* The baggage calls alone.
SpecBaggage == Init /\ [][NextBaggage]_vars

(***************************************************************************)
(* Vocabulary of the properties.                                           *)
(***************************************************************************)
\* The Baggage the span currently carries.
CurrentBaggage == heap[context_.baggage]

\* What SpanShim::BaggageItem returns for a key looked up in a shim.
ItemOf(shim, key) ==
  LET got == ContextBaggageItem(heap, shim, key)
  IN  IF got.found THEN got.value ELSE << >>

\* The k-th baggage snapshot: the shim context_ held after the first k
\* SetBaggageItem calls of the serial order.
Snapshot(k) == IF k = 0 THEN SpanContextShim("sc", 1) ELSE done[k].shim

\* The value the most recent of the first n returned SetBaggageItem calls
\* gave to the key, or the empty string when none of them set it.
RECURSIVE LastSet(_, _)
LastSet(key, n) ==
  IF n = 0 THEN << >>
  ELSE IF Content(done[n].key) = key THEN Content(done[n].value)
  ELSE LastSet(key, n - 1)

\* Every key text a lookup can name.
KeyTexts ==
  {Content(k) : k \in BaggageKeys} \cup {Data(k) : k \in BaggageKeys}

\* No baggage call is in progress.
AllReturned == \A t \in Threads : pc[t] = "idle"

\* The returned SetBaggageItem calls came from distinct threads with
\* distinct keys.
DistinctSetters ==
  \A i, j \in DOMAIN done :
    i # j => /\ done[i].thread # done[j].thread
             /\ Content(done[i].key) # Content(done[j].key)

\* The arguments of every returned SetBaggageItem call were views of whole
\* NUL-terminated strings.
WholeArguments ==
  \A i \in DOMAIN done :
    /\ Data(done[i].key) = Content(done[i].key)
    /\ Data(done[i].value) = Content(done[i].value)

\* The last call was a Log, with or without a timestamp; its fields.
LastIsLog == last.api \in {"Log", "LogAt"}
LastFields == IF last.api = "Log" THEN last.args[1] ELSE last.args[2]

\* The event name the fields of a Log call resolve to.
ResolvedName(fields) ==
  IF \E i \in DOMAIN fields : fields[i].first = "event"
  THEN LET first == CHOOSE i \in DOMAIN fields :
                      /\ fields[i].first = "event"
                      /\ \A j \in 1 .. (i - 1) : fields[j].first # "event"
       IN  StringFromValue(fields[first].second)
  ELSE "log"

\* Name and attributes of the event a Log call emitted.
EmittedName == last.out.args[1]
EmittedAttributes ==
  IF last.out.method = "AddEventAt" THEN last.out.args[3] ELSE last.out.args[2]

\* The event the span recorded for the last Log call, when it was not ended.
RecordedLast ==
  /\ Len(span.events) > 0
  /\ span.events[Len(span.events)].name = EmittedName
  /\ span.events[Len(span.events)].attributes = EmittedAttributes

(***************************************************************************)
(* C1.  When N threads have each called SetBaggageItem with a distinct key *)
(* and all calls have returned, the span's baggage holds every one of the  *)
(* keys with its value.                                                    *)
(***************************************************************************)
C1_NoLostUpdate ==
  (AllReturned /\ DistinctSetters) =>
    \A i \in DOMAIN done :
      /\ Content(done[i].key) \in DOMAIN CurrentBaggage
      /\ CurrentBaggage[Content(done[i].key)] = Content(done[i].value)

\* C1, for callers that pass whole NUL-terminated strings only: the lock
\* loses no update.  (A lemma; the claim itself is C1_NoLostUpdate.)
C1_NoLostUpdateWholeStrings ==
  (AllReturned /\ DistinctSetters /\ WholeArguments) =>
    \A i \in DOMAIN done :
      /\ Content(done[i].key) \in DOMAIN CurrentBaggage
      /\ CurrentBaggage[Content(done[i].key)] = Content(done[i].value)

(***************************************************************************)
(* C2.  The result of every BaggageItem call is the result of looking its  *)
(* key up in one whole baggage snapshot: the baggage after some prefix of  *)
(* the serial order of the SetBaggageItem calls.                           *)
(***************************************************************************)
C2_ReadsOneSnapshot ==
  last.api = "BaggageItem" =>
    \E k \in 0 .. Len(done) :
      last.out = ItemOf(Snapshot(k), Data(last.args[1]))

\* C2 witness: a BaggageItem call returned a value set by the second of two
\* SetBaggageItem calls made by different threads.
C2_Witness ==
  /\ last.api = "BaggageItem"
  /\ Len(done) = 2
  /\ done[1].thread # done[2].thread
  /\ last.out = Data(done[2].value)
  /\ last.out # ItemOf(Snapshot(1), Data(last.args[1]))

(***************************************************************************)
(* C3.  No step changes what any existing SpanContextShim (the span's      *)
(* current one, an earlier one, a clone, a derived one) returns from       *)
(* BaggageItem for any key.                                                *)
(***************************************************************************)
ExistingShims ==
  held \cup {context_} \cup {Snapshot(k) : k \in 0 .. Len(done)}

C3_AncestorsUnchanged ==
  [][\A shim \in ExistingShims : \A key \in KeyTexts :
       ContextBaggageItem(heap', shim, key) = ContextBaggageItem(heap, shim, key)]_vars

\* C3 witness: a clone taken before a SetBaggageItem call and a shim derived
\* from the clone are both held, and the span's baggage differs from both.
C3_Witness ==
  /\ Len(done) > 0
  /\ \E a, b \in held :
       /\ a.baggage = 1
       /\ b.baggage > 1
       /\ heap[b.baggage] # heap[1]
       /\ CurrentBaggage # heap[a.baggage]
       /\ CurrentBaggage # heap[b.baggage]

(***************************************************************************)
(* C4.  SetTag with the key "error" sets the status from the text of the   *)
(* value: "true" gives Error, "false" gives Ok, anything else gives Unset, *)
(* whatever the status was.                                                *)
(***************************************************************************)
C4_ErrorTagStatus ==
  (last.api = "SetTag" /\ Content(last.args[1]) = ErrorTag) =>
    LET text == StringFromValue(last.args[2])
        code == CASE text = "true" -> "Error"
                  [] text = "false" -> "Ok"
                  [] OTHER -> "Unset"
    IN  /\ last.out = Call("SetStatus", <<code>>)
        /\ ~span.ended => span.status = code

\* C4 witness: a third call, SetTag("error", "maybe"), left the status Unset.
C4_Witness ==
  /\ last.api = "SetTag"
  /\ Content(last.args[1]) = ErrorTag
  /\ last.args[2] = Str("maybe")
  /\ calls = 3
  /\ ~span.ended
  /\ span.status = "Unset"

(***************************************************************************)
(* C5.  A Log call whose event name resolves to "error" emits one event,   *)
(* named "exception"; each field keeps its place and its value, the keys   *)
(* "error.kind", "message" and "stack" become the exception type, message  *)
(* and stacktrace keys, every other key is kept, and none of the three     *)
(* original keys is left.                                                  *)
(***************************************************************************)
C5_ExceptionEvent ==
  (LastIsLog /\ ResolvedName(LastFields) = "error") =>
    /\ last.out.method \in {"AddEvent", "AddEventAt"}
    /\ EmittedName = "exception"
    /\ Len(EmittedAttributes) = Len(LastFields)
    /\ \A i \in DOMAIN LastFields :
         LET key == LastFields[i].first
         IN  /\ EmittedAttributes[i].second =
                  AttributeFromValue(LastFields[i].second)
             /\ EmittedAttributes[i].first =
                  (CASE key = "error.kind" -> "exception.type"
                     [] key = "message" -> "exception.message"
                     [] key = "stack" -> "exception.stacktrace"
                     [] OTHER -> key)
    /\ \A i \in DOMAIN EmittedAttributes :
         EmittedAttributes[i].first \notin {"error.kind", "message", "stack"}
    /\ ~span.ended => RecordedLast

\* C5 witness: the span recorded the exception event of a Log call that
\* carried all three keys.
C5_Witness ==
  /\ LastIsLog
  /\ ResolvedName(LastFields) = "error"
  /\ {"error.kind", "message", "stack"} \subseteq
       {LastFields[i].first : i \in DOMAIN LastFields}
  /\ ~span.ended
  /\ RecordedLast
  /\ Len(span.events) = 1

(***************************************************************************)
(* C6.  A Log call with no field keyed "event" emits one event named "log" *)
(* with the fields' keys unchanged and in order; with such a field, the    *)
(* event name is the text of the first one's value.                        *)
(***************************************************************************)
UnchangedFields ==
  /\ last.out.method \in {"AddEvent", "AddEventAt"}
  /\ Len(EmittedAttributes) = Len(LastFields)
  /\ \A i \in DOMAIN LastFields :
       /\ EmittedAttributes[i].first = LastFields[i].first
       /\ EmittedAttributes[i].second = AttributeFromValue(LastFields[i].second)

HasEventField(fields) == \E i \in DOMAIN fields : fields[i].first = "event"

C6_EventName ==
  LastIsLog =>
    IF HasEventField(LastFields)
    THEN EmittedName = ResolvedName(LastFields)
    ELSE EmittedName = "log" /\ UnchangedFields

\* C6 as amended: the same, except that a first "event" value whose text is
\* "error" gives the name "exception".
C6_EventNameAmended ==
  LastIsLog =>
    /\ IF HasEventField(LastFields)
       THEN EmittedName = (IF ResolvedName(LastFields) = "error"
                           THEN "exception" ELSE ResolvedName(LastFields))
       ELSE EmittedName = "log" /\ UnchangedFields
    /\ ~span.ended => RecordedLast

\* C6 witness: the span recorded a "log" event that kept the keys
\* "error.kind", "message" and "stack".
C6_Witness ==
  /\ LastIsLog
  /\ ~HasEventField(LastFields)
  /\ ~span.ended
  /\ RecordedLast
  /\ EmittedName = "log"
  /\ {"error.kind", "message", "stack"} \subseteq
       {EmittedAttributes[i].first : i \in DOMAIN EmittedAttributes}

(***************************************************************************)
(* C7.  BaggageItem(k) returns the value of the most recent                *)
(* SetBaggageItem(k, v) call, and the empty string when k was never set.   *)
(***************************************************************************)
C7_ReadsLastSet ==
  last.api = "BaggageItem" =>
    last.out = LastSet(Content(last.args[1]), Len(done))

\* C7, for callers that pass whole NUL-terminated strings only.  (A lemma;
\* the claim itself is C7_ReadsLastSet.)
C7_ReadsLastSetWholeStrings ==
  (last.api = "BaggageItem" /\ WholeArguments
     /\ Data(last.args[1]) = Content(last.args[1])) =>
    last.out = LastSet(Content(last.args[1]), Len(done))

(***************************************************************************)
(* C8.  A Log call with a timestamp goes to the span's timed AddEvent with *)
(* that timestamp, whatever the timestamp; a Log call without one goes to  *)
(* the untimed AddEvent.                                                   *)
(***************************************************************************)
C8_TimedAndUntimed ==
  /\ last.api = "LogAt" =>
       /\ last.out.method = "AddEventAt"
       /\ last.out.args[2] = last.args[1]
  /\ last.api = "Log" => last.out.method = "AddEvent"

(***************************************************************************)
(* C9.  FinishWithOptions on a span that has not ended ends it: at the     *)
(* finish timestamp of the options when they carry one, and at the span's  *)
(* own "now", with no end timestamp passed, when they carry none.          *)
(***************************************************************************)
C9_FinishTime ==
  [][(last'.api = "FinishWithOptions" /\ calls' = calls + 1) =>
       LET t == last'.args[1].finish_steady_timestamp
       IN  /\ last'.out = Call("End", <<[end_steady_time |-> t]>>)
           /\ ~span.ended =>
                /\ span'.ended
                /\ span'.end_time =
                     (IF t = SteadyTimeDefault THEN Now ELSE At(t))]_vars

\* C9 witness: the span ended at the explicit finish timestamp of the call.
C9_Witness ==
  /\ last.api = "FinishWithOptions"
  /\ last.args[1].finish_steady_timestamp = MaxTime
  /\ span.ended
  /\ span.end_time = At(MaxTime)

(***************************************************************************)
(* C10.  Once FinishWithOptions has been called the span stays finished,   *)
(* and no later call changes the span's attributes, status, events, end    *)
(* time or baggage.                                                        *)
(***************************************************************************)
C10_NoEffectAfterFinish ==
  [][finish_called =>
       /\ finish_called'
       /\ span'.ended
       /\ span' = span
       /\ CurrentBaggage' = CurrentBaggage]_vars

\* C10 as amended: the same for the span's name, attributes, status, events
\* and end time; the baggage is left out, SetBaggageItem still replaces it.
C10_SpanFrozenAfterFinish ==
  [][finish_called =>
       /\ finish_called'
       /\ span'.ended
       /\ span' = span]_vars

\* C10 witness: after FinishWithOptions, a SetBaggageItem call and then
\* SetTag("error", "true") returned; the status is still Unset and the
\* baggage has the new entry.
C10_Witness ==
  /\ finish_called
  /\ span.ended
  /\ last.api = "SetTag"
  /\ Content(last.args[1]) = ErrorTag
  /\ last.args[2] = Str("true")
  /\ span.status = "Unset"
  /\ Len(done) = 1
  /\ CurrentBaggage # EmptyBaggage

====
